---- MODULE Spec2Model ----
(***************************************************************************)
(* okane-skills: the ledger analyzer (scripts/okane_analyzer.py) and the   *)
(* ledger editor (scripts/okane_editor.py) as state machines.              *)
(*                                                                         *)
(* Encoding of the Python values                                           *)
(*   - a date string "YYYY-MM-DD" is the integer month*100 + day, where    *)
(*     month counts calendar months on a linear scale; Python compares the *)
(*     zero padded strings lexicographically, which is the order of these  *)
(*     integers; the empty string "" is 0 (it sorts before every date);    *)
(*   - date[:7] is MonthOf, f'{month}-01' is FirstOfMonth;                 *)
(*   - an optional argument is None (the empty tuple) or Some(v) = <<v>>;  *)
(*   - a description is a tuple of one-character strings;                  *)
(*   - an id is the tuple of its parts: "<timestamp>-<random>" is          *)
(*     <<timestamp, random>>, "compressed-<YYYY-MM>-income" is             *)
(*     <<"compressed", "<YYYY-MM>", "income">>.                            *)
(***************************************************************************)
EXTENDS Integers, Sequences, FiniteSets

VARIABLES
    data,    \* the ledger held in memory by the running invocation
    before,  \* the ledger as it was loaded (load_json) by that invocation
    disk,    \* the ledger stored at the output path
    wrote,   \* whether the invocation called save_json
    call,    \* the operation the invocation ran, with its arguments
    ret,     \* what the operation returned / what main reported
    pc,      \* "loaded": file read, nothing run yet; "done": operation ran
    last_add \* the add the previous invocation made: its ledger before, its new_tx

vars == <<data, before, disk, wrote, call, ret, pc, last_add>>

----------------------------------------------------------------------------
(* Bounds of the model *)

\* longest transaction list a loaded ledger holds
MaxTx == 3

----------------------------------------------------------------------------
(* Values *)

None == <<>>
Some(x) == <<x>>

MonthOf(date) == date \div 100
FirstOfMonth(month) == month * 100 + 1

Types == {"income", "expense"}

Tx(id, date, type, amount, description) ==
    [id |-> id, date |-> date, type |-> type, amount |-> amount,
     description |-> description]

\* a ledger file: compressed and compressedAt are absent until compress_logs sets them
Ledger(ib, txs) ==
    [initialBalance |-> ib, transactions |-> txs, compressed |-> FALSE,
     compressedAt |-> None]

\* all sequences over S of length at most n
SeqsUpTo(S, n) == UNION {[1..k -> S] : k \in 0..n}

\* data.get('initialBalance', 0)
InitialBalanceOf(d) == IF d.initialBalance = None THEN 0 ELSE d.initialBalance[1]

----------------------------------------------------------------------------
(* sorted(list, key=lambda x: x['date']): Python's sort is stable *)

RECURSIVE InsertAsc(_, _)
InsertAsc(sorted, t) ==
    IF sorted = <<>> THEN <<t>>
    ELSE IF sorted[Len(sorted)].date <= t.date THEN Append(sorted, t)
    ELSE Append(InsertAsc(SubSeq(sorted, 1, Len(sorted) - 1), t), sorted[Len(sorted)])

RECURSIVE SortFrom(_, _, _)
SortFrom(txs, i, acc) ==
    IF i > Len(txs) THEN acc ELSE SortFrom(txs, i + 1, InsertAsc(acc, txs[i]))

SortedByDate(txs) == SortFrom(txs, 1, <<>>)

----------------------------------------------------------------------------
(* okane_analyzer.get_balance_at_date *)

SignedAmount(t) == IF t.type = "income" THEN t.amount ELSE 0 - t.amount

RECURSIVE BalanceLoop(_, _, _, _)
BalanceLoop(txs, i, target_date, balance) ==
    IF i > Len(txs) THEN balance
    ELSE BalanceLoop(txs, i + 1, target_date,
             IF txs[i].date <= target_date
             THEN balance + SignedAmount(txs[i])
             ELSE balance)

GetBalanceAtDate_Strict(d, target_date) ==
    BalanceLoop(d.transactions, 1, target_date - 1, InitialBalanceOf(d))

GetBalanceAtDate(d, target_date) ==
    BalanceLoop(d.transactions, 1, target_date, InitialBalanceOf(d))

----------------------------------------------------------------------------
(* okane_analyzer.find_danger_points *)

\* Python truthiness of current_date: None and "" are false
DateTruthy(optDate) == optDate # None /\ optDate[1] # 0

DangerPoint(date, balance, threshold) ==
    [date |-> date, balance |-> balance, shortfall |-> threshold - balance]

\* the flush of one day: append a point when the day's balance is at or below the threshold
Flush(points, cur, daily_balance, threshold) ==
    IF daily_balance <= threshold
    THEN Append(points, DangerPoint(cur[1], daily_balance, threshold))
    ELSE points

RECURSIVE DangerLoop(_, _, _, _, _, _)
DangerLoop(txs, i, threshold, balance, cur, points) ==
    IF i > Len(txs)
    THEN IF DateTruthy(cur) THEN Flush(points, cur, balance, threshold) ELSE points
    ELSE LET t == txs[i]
             flushed == IF DateTruthy(cur) /\ t.date # cur[1]
                        THEN Flush(points, cur, balance, threshold)
                        ELSE points
         IN  DangerLoop(txs, i + 1, threshold, balance + SignedAmount(t),
                        Some(t.date), flushed)

FindDangerPoints_Unsorted(d, threshold) ==
    DangerLoop(d.transactions, 1, threshold, InitialBalanceOf(d), None, <<>>)

FindDangerPoints(d, threshold) ==
    DangerLoop(SortedByDate(d.transactions), 1, threshold, InitialBalanceOf(d),
               None, <<>>)

----------------------------------------------------------------------------
(* okane_analyzer.check_affordability *)

\* balances under this line raise the warning flag
WarningLine == 100000

\* how many upcoming expenses are reported
UpcomingLimit == 5

\* list[:n]
Take(s, n) == SubSeq(s, 1, IF Len(s) < n THEN Len(s) ELSE n)

Affordability(d, amount, target_date, balance_before, warning) ==
    LET balance_after == balance_before - amount
        upcoming_expenses ==
            SelectSeq(d.transactions,
                      LAMBDA t : t.date > target_date /\ t.type = "expense")
    IN  [target_date |-> target_date,
         expense_amount |-> amount,
         balance_before |-> balance_before,
         balance_after |-> balance_after,
         can_afford |-> balance_after >= 0,
         safety_margin |-> balance_after,
         upcoming_expenses |-> Take(upcoming_expenses, UpcomingLimit),
         warning |-> warning]

CheckAffordability_WarnOnlyIfUnaffordable(d, amount, target_date) ==
    LET b == GetBalanceAtDate(d, target_date)
    IN  Affordability(d, amount, target_date, b, b - amount < 0)

CheckAffordability(d, amount, target_date) ==
    LET b == GetBalanceAtDate(d, target_date)
    IN  Affordability(d, amount, target_date, b, b - amount < WarningLine)

----------------------------------------------------------------------------
(* okane_analyzer.compress_logs *)

\* the month as strftime('%Y-%m') / date[:7] prints it
MonthStr(month) ==
    <<"2026-01", "2026-02", "2026-03", "2026-04", "2026-05", "2026-06",
      "2026-07", "2026-08", "2026-09", "2026-10", "2026-11", "2026-12">>[month]

\* (today - relativedelta(months=keep_months)).strftime('%Y-%m')
Cutoff(today, keep_months) == MonthOf(today) - keep_months

\* monthly_summary[month][type] after the loop over the transactions
RECURSIVE MonthlySum(_, _, _, _, _)
MonthlySum(txs, i, cutoff, month, type) ==
    IF i > Len(txs) THEN 0
    ELSE LET t == txs[i]
             counted == /\ MonthOf(t.date) < cutoff
                        /\ MonthOf(t.date) = month
                        /\ (IF t.type = "income" THEN "income" ELSE "expense") = type
         IN  (IF counted THEN t.amount ELSE 0) + MonthlySum(txs, i + 1, cutoff, month, type)

\* monthly_summary.keys(): the months that got an entry
SummaryMonths(txs, cutoff) ==
    {MonthOf(txs[i].date) : i \in {k \in DOMAIN txs : MonthOf(txs[k].date) < cutoff}}

Synthetic(month, type, amount) ==
    Tx(<<"compressed", MonthStr(month), type>>, FirstOfMonth(month), type, amount,
       <<MonthStr(month), type, "total", "(compressed)">>)

\* the synthetic transactions of one month
MonthEntries(txs, cutoff, month) ==
    LET income == MonthlySum(txs, 1, cutoff, month, "income")
        expense == MonthlySum(txs, 1, cutoff, month, "expense")
    IN  (IF income > 0 THEN <<Synthetic(month, "income", income)>> ELSE <<>>)
            \o (IF expense > 0 THEN <<Synthetic(month, "expense", expense)>> ELSE <<>>)

\* for month in sorted(monthly_summary.keys())
RECURSIVE CompressedEntries(_, _, _)
CompressedEntries(txs, cutoff, months) ==
    IF months = {} THEN <<>>
    ELSE LET m == CHOOSE x \in months : \A y \in months : x <= y
         IN  MonthEntries(txs, cutoff, m) \o CompressedEntries(txs, cutoff, months \ {m})

NewTransactions(txs, cutoff) == SelectSeq(txs, LAMBDA t : ~(MonthOf(t.date) < cutoff))

CompressLogs_KeptFirst(d, today, keep_months) ==
    LET cutoff == Cutoff(today, keep_months)
    IN  [d EXCEPT
            !.transactions =
                NewTransactions(d.transactions, cutoff)
                    \o CompressedEntries(d.transactions, cutoff,
                                         SummaryMonths(d.transactions, cutoff)),
            !.compressed = TRUE,
            !.compressedAt = Some(today)]

CompressLogs_OnlyIncome(d, today, keep_months) ==
    LET cutoff == Cutoff(today, keep_months)
    IN  [d EXCEPT
            !.transactions =
                SelectSeq(CompressedEntries(d.transactions, cutoff,
                                            SummaryMonths(d.transactions, cutoff)),
                          LAMBDA t : t.type = "income")
                    \o NewTransactions(d.transactions, cutoff),
            !.compressed = TRUE,
            !.compressedAt = Some(today)]

CompressLogs(d, today, keep_months) ==
    LET cutoff == Cutoff(today, keep_months)
    IN  [d EXCEPT
            !.transactions =
                CompressedEntries(d.transactions, cutoff,
                                  SummaryMonths(d.transactions, cutoff))
                    \o NewTransactions(d.transactions, cutoff),
            !.compressed = TRUE,
            !.compressedAt = Some(today)]

----------------------------------------------------------------------------
(* The analyzer: one invocation loads a ledger and runs one function on it *)

\* dates of the loaded transactions: two days of month 1 and one of month 2
AnDates == {101, 102, 201}
\* dates asked about: before, at, between and after the transaction dates
AnTargets == {100, 101, 102, 201, 202}
AnAmounts == {1, 100000}
AnInitialBalances == {None, Some(1)}
AnThresholds == {-1, 0, 100000}
AnExpenses == {0, 1}

AnPayloads == [date : AnDates, type : Types, amount : AnAmounts]

\* ids of a loaded file, by position
IdAt(i) == <<"t", <<"1", "2", "3", "4", "5", "6", "7", "8">>[i]>>

AnLedgers ==
    {Ledger(ib, [i \in DOMAIN ps |->
                    Tx(IdAt(i), ps[i].date, ps[i].type, ps[i].amount, <<"x">>)]) :
        ib \in AnInitialBalances, ps \in SeqsUpTo(AnPayloads, MaxTx)}

InitAnalyzer ==
    /\ data \in AnLedgers
    /\ before = data
    /\ disk = data
    /\ wrote = FALSE
    /\ last_add = None
    /\ call = [op |-> "load"]
    /\ ret = None
    /\ pc = "loaded"

BalanceAt(target_date) ==
    /\ pc = "loaded"
    /\ call' = [op |-> "get_balance_at_date", target_date |-> target_date]
    /\ ret' = GetBalanceAtDate(data, target_date)
    /\ pc' = "done"
    /\ UNCHANGED <<data, before, disk, wrote, last_add>>

DangerScan(threshold) ==
    /\ pc = "loaded"
    /\ call' = [op |-> "find_danger_points", threshold |-> threshold]
    /\ ret' = FindDangerPoints(data, threshold)
    /\ pc' = "done"
    /\ UNCHANGED <<data, before, disk, wrote, last_add>>

Check(amount, target_date) ==
    /\ pc = "loaded"
    /\ call' = [op |-> "check_affordability", amount |-> amount,
                target_date |-> target_date]
    /\ ret' = CheckAffordability(data, amount, target_date)
    /\ pc' = "done"
    /\ UNCHANGED <<data, before, disk, wrote, last_add>>

NextAnalyzer ==
    \/ \E d \in AnTargets : BalanceAt(d)
    \/ \E th \in AnThresholds : DangerScan(th)
    \/ \E a \in AnExpenses, d \in AnTargets : Check(a, d)

SpecAnalyzer == InitAnalyzer /\ [][NextAnalyzer]_vars

----------------------------------------------------------------------------
(* The analyzer's --compress: compress, save to the output path; a later    *)
(* invocation may load the compressed file and compress it again            *)

CoDates == {101, 102, 201, 301}
CoAmounts == {0, 1}
CoTodays == {415, 501}
CoKeepMonths == 0..3

\* the schema asks for amount >= 0 but nothing enforces it: one negative entry
CoPayloads ==
    [date : CoDates, type : Types, amount : CoAmounts]
        \cup {[date |-> 102, type |-> "income", amount |-> -1]}

CoLedgers ==
    {Ledger(None, [i \in DOMAIN ps |->
                      Tx(IdAt(i), ps[i].date, ps[i].type, ps[i].amount, <<"x">>)]) :
        ps \in SeqsUpTo(CoPayloads, MaxTx)}

InitCompress ==
    /\ data \in CoLedgers
    /\ before = data
    /\ disk = data
    /\ wrote = FALSE
    /\ last_add = None
    /\ call = [op |-> "load"]
    /\ ret = None
    /\ pc = "loaded"

\* main, --compress
MainCompress(today, keep_months) ==
    /\ pc = "loaded"
    /\ call' = [op |-> "compress_logs", today |-> today, keep_months |-> keep_months]
    /\ ret' = CompressLogs(data, today, keep_months)
    /\ disk' = ret'
    /\ wrote' = TRUE
    /\ pc' = "done"
    /\ UNCHANGED <<data, before, last_add>>

\* the next invocation, on the file the last one wrote
LoadCompressed ==
    /\ pc = "done"
    /\ wrote
    /\ data' = disk
    /\ before' = disk
    /\ wrote' = FALSE
    /\ call' = [op |-> "load"]
    /\ ret' = None
    /\ pc' = "loaded"
    /\ UNCHANGED <<disk, last_add>>

NextCompress ==
    \/ \E today \in CoTodays, keep \in CoKeepMonths : MainCompress(today, keep)
    \/ LoadCompressed

SpecCompress == InitCompress /\ [][NextCompress]_vars

----------------------------------------------------------------------------
(* okane_editor: add_transaction, edit_transaction, delete_transaction *)

\* Python truthiness of an optional string argument: None and "" are false
\* (the empty date is 0, the empty type is "", the empty description is <<>>)
Truthy(opt, empty) == opt # None /\ opt[1] # empty

\* Python truthiness of an optional int argument: None and 0 are false
AmountTruthy(opt) == opt # None /\ opt[1] # 0

Ids(txs) == {txs[i].id : i \in DOMAIN txs}

\* the position of the first transaction with the id, 0 when there is none
FirstWithId(txs, tx_id) ==
    IF tx_id \in Ids(txs)
    THEN CHOOSE i \in DOMAIN txs :
             txs[i].id = tx_id /\ \A j \in 1..(i - 1) : txs[j].id # tx_id
    ELSE 0

\* list.pop(i)
RemoveAt(seq, i) == SubSeq(seq, 1, i - 1) \o SubSeq(seq, i + 1, Len(seq))

\* each operation yields the ledger it leaves in memory and the value it returns
\* (a returned transaction is Some(tx), the not-found value is None)
AddTransaction_NoSort(d, new_id, date, type, amount, description) ==
    LET new_tx == Tx(new_id, date, type, amount, description)
    IN  [data |-> [d EXCEPT !.transactions = Append(d.transactions, new_tx)],
         ret |-> Some(new_tx)]

\* generate_id returning the id of the first stored transaction
AddTransaction_ReusesId(d, new_id, date, type, amount, description) ==
    LET id == IF d.transactions = <<>> THEN new_id ELSE d.transactions[1].id
        new_tx == Tx(id, date, type, amount, description)
    IN  [data |-> [d EXCEPT !.transactions =
                                SortedByDate(Append(d.transactions, new_tx))],
         ret |-> Some(new_tx)]

AddTransaction(d, new_id, date, type, amount, description) ==
    LET new_tx == Tx(new_id, date, type, amount, description)
    IN  [data |-> [d EXCEPT !.transactions =
                                SortedByDate(Append(d.transactions, new_tx))],
         ret |-> Some(new_tx)]

Edited(tx, date, type, amount, description) ==
    [tx EXCEPT
        !.date = IF Truthy(date, 0) THEN date[1] ELSE @,
        !.type = IF Truthy(type, "") THEN type[1] ELSE @,
        !.amount = IF amount # None THEN amount[1] ELSE @,
        !.description = IF Truthy(description, <<>>) THEN description[1] ELSE @]

EditTransaction_LastMatch(d, tx_id, date, type, amount, description) ==
    LET txs == d.transactions
        i == IF tx_id \in Ids(txs)
             THEN CHOOSE k \in DOMAIN txs :
                      txs[k].id = tx_id /\ \A j \in (k + 1)..Len(txs) : txs[j].id # tx_id
             ELSE 0
    IN  IF i = 0 THEN [data |-> d, ret |-> None]
        ELSE LET tx == Edited(txs[i], date, type, amount, description)
             IN  [data |-> [d EXCEPT !.transactions =
                                         SortedByDate([txs EXCEPT ![i] = tx])],
                  ret |-> Some(tx)]

EditTransaction_SortsWhenAbsent(d, tx_id, date, type, amount, description) ==
    LET txs == d.transactions
        i == FirstWithId(txs, tx_id)
        tx == Edited(txs[i], date, type, amount, description)
    IN  [data |-> [d EXCEPT !.transactions =
                                SortedByDate(IF i = 0 THEN txs ELSE [txs EXCEPT ![i] = tx])],
         ret |-> IF i = 0 THEN None ELSE Some(tx)]

EditTransaction(d, tx_id, date, type, amount, description) ==
    LET txs == d.transactions
        i == FirstWithId(txs, tx_id)
    IN  IF i = 0 THEN [data |-> d, ret |-> None]
        ELSE LET tx == Edited(txs[i], date, type, amount, description)
             IN  [data |-> [d EXCEPT !.transactions =
                                         SortedByDate([txs EXCEPT ![i] = tx])],
                  ret |-> Some(tx)]

DeleteTransaction_PopFirst(d, tx_id) ==
    LET txs == d.transactions
    IN  IF txs = <<>> THEN [data |-> d, ret |-> None]
        ELSE [data |-> [d EXCEPT !.transactions = RemoveAt(txs, 1)],
              ret |-> Some(txs[1])]

DeleteTransaction(d, tx_id) ==
    LET txs == d.transactions
        i == FirstWithId(txs, tx_id)
    IN  IF i = 0 THEN [data |-> d, ret |-> None]
        ELSE [data |-> [d EXCEPT !.transactions = RemoveAt(txs, i)],
              ret |-> Some(txs[i])]

----------------------------------------------------------------------------
(* okane_editor.search_transactions *)

\* str.lower() on the letters the descriptions use
LowerChar(c) == CASE c = "A" -> "a" [] c = "B" -> "b" [] OTHER -> c
Lower(str) == [i \in DOMAIN str |-> LowerChar(str[i])]

\* needle in haystack
Contains(haystack, needle) ==
    \E off \in 0..(Len(haystack) - Len(needle)) :
        SubSeq(haystack, off + 1, off + Len(needle)) = needle

\* sorted(list, key=date, reverse=True): stable, equal dates keep their order
RECURSIVE InsertDesc(_, _)
InsertDesc(sorted, t) ==
    IF sorted = <<>> THEN <<t>>
    ELSE IF sorted[Len(sorted)].date >= t.date THEN Append(sorted, t)
    ELSE Append(InsertDesc(SubSeq(sorted, 1, Len(sorted) - 1), t), sorted[Len(sorted)])

RECURSIVE SortDescFrom(_, _, _)
SortDescFrom(txs, i, acc) ==
    IF i > Len(txs) THEN acc ELSE SortDescFrom(txs, i + 1, InsertDesc(acc, txs[i]))

SortedByDateDesc(txs) == SortDescFrom(txs, 1, <<>>)

Filtered(txs, max_applies, keyword, tx_type, start_date, end_date, min_amount, max_amount) ==
    LET f1 == IF Truthy(tx_type, "")
              THEN SelectSeq(txs, LAMBDA t : t.type = tx_type[1]) ELSE txs
        f2 == IF Truthy(start_date, 0)
              THEN SelectSeq(f1, LAMBDA t : t.date >= start_date[1]) ELSE f1
        f3 == IF Truthy(end_date, 0)
              THEN SelectSeq(f2, LAMBDA t : t.date <= end_date[1]) ELSE f2
        f4 == IF min_amount # None
              THEN SelectSeq(f3, LAMBDA t : t.amount >= min_amount[1]) ELSE f3
        f5 == IF max_applies
              THEN SelectSeq(f4, LAMBDA t : t.amount <= max_amount[1]) ELSE f4
        f6 == IF Truthy(keyword, <<>>)
              THEN SelectSeq(f5, LAMBDA t : Contains(Lower(t.description),
                                                     Lower(keyword[1])))
              ELSE f5
    IN  f6

SearchTransactions_TruthyMax(d, keyword, tx_type, start_date, end_date, min_amount, max_amount) ==
    SortedByDateDesc(Filtered(d.transactions, AmountTruthy(max_amount), keyword,
                              tx_type, start_date, end_date, min_amount, max_amount))

SearchTransactions(d, keyword, tx_type, start_date, end_date, min_amount, max_amount) ==
    SortedByDateDesc(Filtered(d.transactions, max_amount # None, keyword, tx_type,
                              start_date, end_date, min_amount, max_amount))

----------------------------------------------------------------------------
(* okane_editor.main: --add, --edit ID, --delete ID.  An invocation loads   *)
(* the file, runs one command and, when the command changed the ledger,     *)
(* saves it to the output path; the next invocation loads what is stored.   *)

\* main, --add: all of date, type, amount, desc must be truthy
MainAdd(new_id, date, type, amount, description) ==
    /\ pc = "loaded"
    /\ Len(data.transactions) < MaxTx
    /\ new_id \notin Ids(data.transactions)
    /\ call' = [op |-> "add", date |-> date, type |-> type, amount |-> amount,
                description |-> description]
    /\ IF Truthy(date, 0) /\ Truthy(type, "") /\ AmountTruthy(amount)
              /\ Truthy(description, <<>>)
       THEN LET r == AddTransaction(data, new_id, date[1], type[1], amount[1],
                                    description[1])
            IN  /\ data' = r.data
                /\ ret' = [out |-> "added", value |-> r.ret]
                /\ disk' = r.data
                /\ wrote' = TRUE
       ELSE /\ ret' = [out |-> "usage", value |-> None]
            /\ UNCHANGED <<data, disk, wrote>>
    /\ pc' = "done"
    /\ UNCHANGED <<before, last_add>>

\* main, --edit ID: one of date, type, amount, desc must be truthy
MainEdit(tx_id, date, type, amount, description) ==
    /\ pc = "loaded"
    /\ call' = [op |-> "edit", tx_id |-> tx_id, date |-> date, type |-> type,
                amount |-> amount, description |-> description]
    /\ IF Truthy(date, 0) \/ Truthy(type, "") \/ AmountTruthy(amount)
              \/ Truthy(description, <<>>)
       THEN LET r == EditTransaction(data, tx_id, date, type, amount, description)
            IN  /\ data' = r.data
                /\ IF r.ret # None
                   THEN /\ ret' = [out |-> "edited", value |-> r.ret]
                        /\ disk' = r.data
                        /\ wrote' = TRUE
                   ELSE /\ ret' = [out |-> "not_found", value |-> r.ret]
                        /\ UNCHANGED <<disk, wrote>>
       ELSE /\ ret' = [out |-> "nothing_to_edit", value |-> None]
            /\ UNCHANGED <<data, disk, wrote>>
    /\ pc' = "done"
    /\ UNCHANGED <<before, last_add>>

\* main, --delete ID
MainDelete(tx_id) ==
    /\ pc = "loaded"
    /\ call' = [op |-> "delete", tx_id |-> tx_id]
    /\ LET r == DeleteTransaction(data, tx_id)
       IN  /\ data' = r.data
           /\ IF r.ret # None
              THEN /\ ret' = [out |-> "deleted", value |-> r.ret]
                   /\ disk' = r.data
                   /\ wrote' = TRUE
              ELSE /\ ret' = [out |-> "not_found", value |-> r.ret]
                   /\ UNCHANGED <<disk, wrote>>
    /\ pc' = "done"
    /\ UNCHANGED <<before, last_add>>

\* the next invocation: load_json of the stored file
Reload ==
    /\ pc = "done"
    /\ data' = disk
    /\ before' = disk
    /\ wrote' = FALSE
    /\ last_add' = IF call.op = "add" /\ ret.out = "added"
                   THEN Some([base |-> before, tx |-> ret.value[1]])
                   ELSE None
    /\ call' = [op |-> "load"]
    /\ ret' = None
    /\ pc' = "loaded"
    /\ UNCHANGED disk

\* ids in the loaded file, ids generate_id may return, an id no transaction has
EdIds == {<<"1", "a">>, <<"1", "b">>}
GenIds == {<<"2", "c">>, <<"2", "d">>}
AbsentId == <<"9", "z">>
EdDates == {101, 201}

EdLedgers ==
    {Ledger(None, txs) :
        txs \in SeqsUpTo({Tx(id, date, "income", 1, <<"x">>) :
                             id \in EdIds, date \in EdDates}, MaxTx)}

InitEditor ==
    /\ data \in EdLedgers
    /\ before = data
    /\ disk = data
    /\ wrote = FALSE
    /\ last_add = None
    /\ call = [op |-> "load"]
    /\ ret = None
    /\ pc = "loaded"

NextEditor ==
    \/ \E new_id \in GenIds, date \in EdDates, amount \in {None, Some(0), Some(1)} :
           MainAdd(new_id, Some(date), Some("income"), amount, Some(<<"x">>))
    \/ \E tx_id \in EdIds \cup GenIds \cup {AbsentId},
          date \in {None, Some(101), Some(201)}, amount \in {None, Some(0)} :
           MainEdit(tx_id, date, None, amount, None)
    \/ \E tx_id \in EdIds \cup GenIds \cup {AbsentId} : MainDelete(tx_id)
    \/ Reload

SpecEditor == InitEditor /\ [][NextEditor]_vars

----------------------------------------------------------------------------
(* One edit of a loaded ledger, through main's --edit or by a direct call   *)
(* of edit_transaction, with every combination of absent, empty and given   *)
(* fields                                                                   *)

\* edit_transaction called directly
EditCall(tx_id, date, type, amount, description) ==
    /\ pc = "loaded"
    /\ call' = [op |-> "edit_transaction", tx_id |-> tx_id, date |-> date,
                type |-> type, amount |-> amount, description |-> description]
    /\ LET r == EditTransaction(data, tx_id, date, type, amount, description)
       IN  /\ data' = r.data
           /\ ret' = [out |-> "returned", value |-> r.ret]
    /\ pc' = "done"
    /\ UNCHANGED <<before, disk, wrote, last_add>>

OptDates == {None, Some(0), Some(102)}
OptAmounts == {None, Some(0), Some(5)}
OptDescriptions == {None, Some(<<>>), Some(<<"y">>)}
\* --type accepts only its choices; a direct call can pass the empty string
CliTypes == {None, Some("income"), Some("expense")}
CallTypes == {None, Some(""), Some("expense")}

NextEdit ==
    \/ \E tx_id \in EdIds \cup {AbsentId}, date \in OptDates, type \in CliTypes,
          amount \in OptAmounts, description \in OptDescriptions :
           MainEdit(tx_id, date, type, amount, description)
    \/ \E tx_id \in EdIds \cup {AbsentId}, date \in OptDates, type \in CallTypes,
          amount \in OptAmounts, description \in OptDescriptions :
           EditCall(tx_id, date, type, amount, description)

SpecEdit == InitEditor /\ [][NextEdit]_vars

----------------------------------------------------------------------------
(* A search over a loaded ledger *)

\* longest transaction list of a searched ledger
MaxSearchTx == 2

SeDates == {101, 201}
SeAmounts == {0, 5}
SeDescriptions == {<<"x", "A", "b">>, <<"a">>}

SePayloads ==
    [date : SeDates, type : Types, amount : SeAmounts, description : SeDescriptions]

SeLedgers ==
    {Ledger(None, [i \in DOMAIN ps |->
                      Tx(IdAt(i), ps[i].date, ps[i].type, ps[i].amount,
                         ps[i].description)]) :
        ps \in SeqsUpTo(SePayloads, MaxSearchTx)}

SeKeywords == {None, Some(<<>>), Some(<<"a", "B">>)}
SeTypes == {None, Some("income"), Some("expense")}
SeStartDates == {None, Some(201)}
SeEndDates == {None, Some(101)}
SeBounds == {None, Some(0), Some(5)}

InitSearch ==
    /\ data \in SeLedgers
    /\ before = data
    /\ disk = data
    /\ wrote = FALSE
    /\ last_add = None
    /\ call = [op |-> "load"]
    /\ ret = None
    /\ pc = "loaded"

Search(keyword, tx_type, start_date, end_date, min_amount, max_amount) ==
    /\ pc = "loaded"
    /\ call' = [op |-> "search_transactions", keyword |-> keyword, tx_type |-> tx_type,
                start_date |-> start_date, end_date |-> end_date,
                min_amount |-> min_amount, max_amount |-> max_amount]
    /\ ret' = SearchTransactions(data, keyword, tx_type, start_date, end_date,
                                 min_amount, max_amount)
    /\ pc' = "done"
    /\ UNCHANGED <<data, before, disk, wrote, last_add>>

NextSearch ==
    \E keyword \in SeKeywords, tx_type \in SeTypes, start_date \in SeStartDates,
       end_date \in SeEndDates, min_amount \in SeBounds, max_amount \in SeBounds :
        Search(keyword, tx_type, start_date, end_date, min_amount, max_amount)

SpecSearch == InitSearch /\ [][NextSearch]_vars

----------------------------------------------------------------------------
(* Reference definitions the claims are stated with *)

\* the sum of the amounts of the transactions at the positions in S
RECURSIVE SumAt(_, _)
SumAt(txs, S) ==
    IF S = {} THEN 0
    ELSE LET i == CHOOSE k \in S : TRUE IN txs[i].amount + SumAt(txs, S \ {i})

Positions(txs, type, lo, hi) ==
    {i \in DOMAIN txs : txs[i].type = type /\ lo < txs[i].date /\ txs[i].date <= hi}

\* income minus expense over the transactions dated in (lo, hi]
SignedSumBetween(txs, lo, hi) ==
    SumAt(txs, Positions(txs, "income", lo, hi))
        - SumAt(txs, Positions(txs, "expense", lo, hi))

TotalOf(txs, type) == SumAt(txs, {i \in DOMAIN txs : txs[i].type = type})

Permutations(n) == {p \in [1..n -> 1..n] : \A i, j \in 1..n : p[i] = p[j] => i = j}

Reordered(d, p) ==
    [d EXCEPT !.transactions = [i \in DOMAIN d.transactions |-> d.transactions[p[i]]]]

IsDateAscending(txs) == \A i \in 1..(Len(txs) - 1) : txs[i].date <= txs[i + 1].date

TxDates(txs) == {txs[i].date : i \in DOMAIN txs}

Range(seq) == {seq[i] : i \in DOMAIN seq}

\* how often the record t occurs in the list
Occurrences(seq, t) == Cardinality({i \in DOMAIN seq : seq[i] = t})

----------------------------------------------------------------------------
(* C1: get_balance_at_date(ledger, d) is initialBalance (0 if absent) plus  *)
(* the income amounts dated <= d minus the expense amounts dated <= d, in   *)
(* whatever order the transactions are stored; the balances at d1 <= d2     *)
(* differ by the signed sum of the transactions with d1 < date <= d2; at or *)
(* after every transaction date the balance is initialBalance + total       *)
(* income - total expense.                                                  *)
C1_BalanceIsSignedSum ==
    call.op = "get_balance_at_date" =>
        LET txs == data.transactions
            d2 == call.target_date
        IN  /\ ret = InitialBalanceOf(data) + SignedSumBetween(txs, -1, d2)
            /\ \A p \in Permutations(Len(txs)) :
                   GetBalanceAtDate(Reordered(data, p), d2) = ret
            /\ \A d1 \in AnTargets :
                   d1 <= d2 =>
                       ret - GetBalanceAtDate(data, d1) = SignedSumBetween(txs, d1, d2)
            /\ (\A i \in DOMAIN txs : txs[i].date <= d2) =>
                   ret = InitialBalanceOf(data) + TotalOf(txs, "income")
                             - TotalOf(txs, "expense")

\* a balance asked in the middle of an unsorted ledger holding both types
C1_Witness ==
    /\ call.op = "get_balance_at_date"
    /\ ~IsDateAscending(data.transactions)
    /\ \E i, j, k \in DOMAIN data.transactions :
           /\ data.transactions[i].date <= call.target_date
           /\ data.transactions[i].type = "income"
           /\ data.transactions[j].date <= call.target_date
           /\ data.transactions[j].type = "expense"
           /\ data.transactions[k].date > call.target_date
    /\ data.initialBalance = None

(* C2: find_danger_points returns, in strictly ascending date order, one    *)
(* point for each distinct transaction date whose end-of-day balance (the   *)
(* balance at that date) is <= threshold and no other point; a point        *)
(* carries that balance and shortfall = threshold - balance >= 0.           *)
C2_DangerPointsAreEndOfDay ==
    call.op = "find_danger_points" =>
        LET txs == data.transactions
            th == call.threshold
            low == {d \in TxDates(txs) : GetBalanceAtDate(data, d) <= th}
        IN  /\ \A k \in 1..(Len(ret) - 1) : ret[k].date < ret[k + 1].date
            /\ {ret[k].date : k \in DOMAIN ret} = low
            /\ \A k \in DOMAIN ret :
                   /\ ret[k].balance = GetBalanceAtDate(data, ret[k].date)
                   /\ ret[k].shortfall = th - ret[k].balance
                   /\ ret[k].shortfall >= 0
            /\ (\A d \in TxDates(txs) : GetBalanceAtDate(data, d) > th) => ret = <<>>
            /\ (\A d \in TxDates(txs) : GetBalanceAtDate(data, d) <= th) =>
                   Len(ret) = Cardinality(TxDates(txs))

\* an unsorted ledger with a day of two transactions whose running balance dips to
\* the threshold during the day but ends above it, and a later day that is reported
C2_Witness ==
    /\ call.op = "find_danger_points"
    /\ ~IsDateAscending(data.transactions)
    /\ Len(ret) = 1
    /\ \E i, j \in DOMAIN data.transactions :
           /\ i # j
           /\ data.transactions[i].date = data.transactions[j].date
           /\ data.transactions[i].date \notin {ret[k].date : k \in DOMAIN ret}
           /\ data.transactions[i].type = "expense"
           /\ data.transactions[j].type = "income"
           /\ InitialBalanceOf(data) - data.transactions[i].amount <= call.threshold

C3_CompressKeepsTotals ==
    (call.op = "compress_logs"
        /\ \A i \in DOMAIN data.transactions : data.transactions[i].amount >= 0) =>
        LET old == data.transactions
            new == ret.transactions
            cutoff == Cutoff(call.today, call.keep_months)
            recent == {t \in Range(old) \cup Range(new) : MonthOf(t.date) >= cutoff}
        IN  /\ TotalOf(new, "income") = TotalOf(old, "income")
            /\ TotalOf(new, "expense") = TotalOf(old, "expense")
            /\ \A t \in recent : Occurrences(new, t) = Occurrences(old, t)

\* a compressed file compressed again with a shorter keep window: an earlier
\* synthetic entry and a detailed one fall before the new cutoff, one is kept
C3_Witness ==
    /\ call.op = "compress_logs"
    /\ data.compressed
    /\ \A i \in DOMAIN data.transactions : data.transactions[i].amount >= 0
    /\ LET cutoff == Cutoff(call.today, call.keep_months)
       IN  \E i, j, k \in DOMAIN data.transactions :
               /\ data.transactions[i].id[1] = "compressed"
               /\ data.transactions[j].id[1] # "compressed"
               /\ data.transactions[j].amount > 0
               /\ MonthOf(data.transactions[j].date) < cutoff
               /\ MonthOf(data.transactions[k].date) >= cutoff
    /\ ret.transactions # data.transactions

(* C4: the list compress_logs returns is the synthetic transactions in      *)
(* ascending month order (income before expense within a month, at most one *)
(* of each per month before the cutoff), each dated the 1st of its month,   *)
(* with id compressed-<YYYY-MM>-<type> and amount that month's sum for the  *)
(* type, present only when the sum is nonzero, followed by the transactions *)
(* at or after the cutoff in their original relative order; compressed is   *)
(* true.                                                                    *)
C4_CompressedLayout ==
    call.op = "compress_logs" =>
        LET old == data.transactions
            new == ret.transactions
            cutoff == Cutoff(call.today, call.keep_months)
            kept == SelectSeq(old, LAMBDA t : MonthOf(t.date) >= cutoff)
            n == Len(new) - Len(kept)
            MonthTotal(m, type) ==
                SumAt(old, {i \in DOMAIN old :
                               MonthOf(old[i].date) = m /\ old[i].type = type})
        IN  /\ n >= 0
            /\ SubSeq(new, n + 1, Len(new)) = kept
            /\ \A k \in 1..n :
                   LET m == MonthOf(new[k].date)
                   IN  /\ m < cutoff
                       /\ new[k].date = FirstOfMonth(m)
                       /\ new[k].type \in Types
                       /\ new[k].id = <<"compressed", MonthStr(m), new[k].type>>
                       /\ new[k].amount = MonthTotal(m, new[k].type)
                       /\ new[k].amount # 0
            /\ \A k, l \in 1..n :
                   k < l =>
                       \/ MonthOf(new[k].date) < MonthOf(new[l].date)
                       \/ /\ MonthOf(new[k].date) = MonthOf(new[l].date)
                          /\ new[k].type = "income"
                          /\ new[l].type = "expense"
            /\ \A i \in DOMAIN old, type \in Types :
                   (MonthOf(old[i].date) < cutoff /\ MonthTotal(MonthOf(old[i].date), type) > 0) =>
                       \E k \in 1..n :
                           /\ MonthOf(new[k].date) = MonthOf(old[i].date)
                           /\ new[k].type = type
            /\ ret.compressed = TRUE

\* an unsorted ledger of which two months are summarised and one entry is kept
C4_Witness ==
    /\ call.op = "compress_logs"
    /\ ~IsDateAscending(data.transactions)
    /\ Len(ret.transactions) = 3
    /\ ret.transactions[1].id[1] = "compressed"
    /\ ret.transactions[2].id[1] = "compressed"
    /\ ret.transactions[1].date < ret.transactions[2].date
    /\ ret.transactions[3].id[1] # "compressed"

\* the list a mutating command leaves before any re-sorting: the loaded list with
\* the returned transaction appended, put in place of the first match, or removed
Mutated ==
    LET txs == before.transactions
    IN  CASE call.op = "add" -> Append(txs, ret.value[1])
          [] call.op = "edit" ->
                [txs EXCEPT ![FirstWithId(txs, call.tx_id)] = ret.value[1]]
          [] call.op = "delete" -> RemoveAt(txs, FirstWithId(txs, call.tx_id))

OnDate(txs, date) == SelectSeq(txs, LAMBDA t : t.date = date)

\* date ascending, equal dates in the relative order of the list 'from'
NormalisedFrom(txs, from) ==
    /\ IsDateAscending(txs)
    /\ \A date \in TxDates(from) \cup TxDates(txs) : OnDate(txs, date) = OnDate(from, date)

(* C5: after every mutating editor operation (add_transaction, an           *)
(* edit_transaction or delete_transaction that finds its id), on a ledger   *)
(* loaded in any storage order, the stored list is date ascending and       *)
(* transactions of equal date keep their relative order, a new one coming   *)
(* after the existing ones of its date.                                     *)
C5_SortedAfterEveryMutation ==
    (call.op \in {"add", "edit", "delete"} /\ ret.value # None) =>
        NormalisedFrom(data.transactions, Mutated)

\* what the code does give: add_transaction and edit_transaction re-sort,
\* delete_transaction only removes
SortedAfterAddAndEdit ==
    /\ (call.op \in {"add", "edit"} /\ ret.value # None) =>
           NormalisedFrom(data.transactions, Mutated)
    /\ (call.op = "delete" /\ ret.value # None) => data.transactions = Mutated

UniqueIds(txs) == Cardinality(Ids(txs)) = Len(txs)

(* C6: on a ledger with unique ids, add_transaction followed by             *)
(* delete_transaction with the id the add returned leaves the same          *)
(* transactions, as a multiset of records, as before the add, and the       *)
(* delete returns the record the add created.                               *)
C6_AddThenDeleteRestores ==
    (/\ call.op = "delete"
     /\ last_add # None
     /\ call.tx_id = last_add[1].tx.id
     /\ UniqueIds(last_add[1].base.transactions)) =>
        LET old == last_add[1].base.transactions
            new == data.transactions
        IN  /\ ret.value = Some(last_add[1].tx)
            /\ \A t \in Range(old) \cup Range(new) :
                   Occurrences(new, t) = Occurrences(old, t)

\* the add put its transaction between two existing ones and the delete took it out
C6_Witness ==
    /\ call.op = "delete"
    /\ last_add # None
    /\ call.tx_id = last_add[1].tx.id
    /\ UniqueIds(last_add[1].base.transactions)
    /\ Len(last_add[1].base.transactions) = 2
    /\ ~IsDateAscending(last_add[1].base.transactions)
    /\ before.transactions[2] = last_add[1].tx
    /\ ret.out = "deleted"

(* C8: edit_transaction and delete_transaction called with an id that no    *)
(* transaction has return None and leave the ledger (transactions, order,   *)
(* initialBalance) as it was; the editor then reports not-found and writes  *)
(* no file.                                                                 *)
C8_UnknownIdChangesNothing ==
    (/\ call.op \in {"edit", "delete"}
     /\ call.tx_id \notin Ids(before.transactions)
     /\ call.op = "edit" =>
            (Truthy(call.date, 0) \/ Truthy(call.type, "") \/ AmountTruthy(call.amount)
                \/ Truthy(call.description, <<>>))) =>
        /\ ret.value = None
        /\ data = before
        /\ ret.out = "not_found"
        /\ ~wrote
        /\ disk = before

\* an edit of an id that is not in an unsorted ledger
C8_Witness ==
    /\ call.op = "edit"
    /\ call.tx_id \notin Ids(before.transactions)
    /\ Truthy(call.date, 0)
    /\ Len(before.transactions) >= 2
    /\ ~IsDateAscending(before.transactions)
    /\ ret.out = "not_found"

\* the transaction an edit with the given arguments should leave in place of tx:
\* a given date, type or description replaces the old one unless it is empty,
\* a given amount replaces the old one whatever it is
EditOf(tx, date, type, amount, description) ==
    [id |-> tx.id,
     date |-> IF date \notin {None, Some(0)} THEN date[1] ELSE tx.date,
     type |-> IF type \notin {None, Some("")} THEN type[1] ELSE tx.type,
     amount |-> IF amount # None THEN amount[1] ELSE tx.amount,
     description |-> IF description \notin {None, Some(<<>>)}
                     THEN description[1] ELSE tx.description]

OnlyFirstMatchEdited ==
    LET old == before.transactions
        new == data.transactions
        i == FirstWithId(old, call.tx_id)
        want == [old EXCEPT ![i] = EditOf(old[i], call.date, call.type, call.amount,
                                          call.description)]
    IN  /\ Len(new) = Len(old)
        /\ \A t \in Range(want) \cup Range(new) : Occurrences(new, t) = Occurrences(want, t)
        /\ data.initialBalance = before.initialBalance

(* C7: edit_transaction on an id in the ledger changes only the first       *)
(* transaction with that id and only the fields given, leaving its id, the  *)
(* omitted fields and every other transaction as they were; a given amount  *)
(* of 0 is honoured, also when the amount is the only field given to the    *)
(* editor's --edit; an empty date, type or description counts as not given. *)
C7_EditAppliesGivenFields ==
    (call.op \in {"edit", "edit_transaction"} /\ call.tx_id \in Ids(before.transactions)) =>
        OnlyFirstMatchEdited

\* what the code does give: the direct call honours every given field, and so does
\* --edit unless the amount 0 is the only field that would pass main's any() test
EditAppliesGivenFieldsExceptCliZero ==
    (/\ call.op \in {"edit", "edit_transaction"}
     /\ call.tx_id \in Ids(before.transactions)
     /\ ~(/\ call.op = "edit"
          /\ call.amount = Some(0)
          /\ ~Truthy(call.date, 0)
          /\ ~Truthy(call.type, "")
          /\ ~Truthy(call.description, <<>>))) =>
        OnlyFirstMatchEdited

\* keyword occurs in the description when letter case is ignored
MatchesIgnoringCase(description, keyword) ==
    \E off \in 0..(Len(description) - Len(keyword)) :
        \A j \in 1..Len(keyword) :
            LowerChar(description[off + j]) = LowerChar(keyword[j])

\* t passes every filter the call supplies
PassesFilters(t) ==
    /\ call.tx_type # None => t.type = call.tx_type[1]
    /\ call.start_date # None => t.date >= call.start_date[1]
    /\ call.end_date # None => t.date <= call.end_date[1]
    /\ call.min_amount # None => t.amount >= call.min_amount[1]
    /\ call.max_amount # None => t.amount <= call.max_amount[1]
    /\ call.keyword # None => MatchesIgnoringCase(t.description, call.keyword[1])

(* C9: search_transactions returns exactly the transactions that satisfy    *)
(* every supplied filter (type, date >= start, date <= end, amount >= min,  *)
(* amount <= max, description contains the keyword ignoring case), by date  *)
(* descending; without filters it returns all of them, with min = max = X   *)
(* (also X = 0) exactly those of amount X; the ledger is not modified.      *)
C9_SearchFilters ==
    call.op = "search_transactions" =>
        LET txs == before.transactions
        IN  /\ \A t \in Range(txs) \cup Range(ret) :
                   Occurrences(ret, t) = IF PassesFilters(t) THEN Occurrences(txs, t) ELSE 0
            /\ \A k \in 1..(Len(ret) - 1) : ret[k].date >= ret[k + 1].date
            /\ (/\ call.keyword = None
                /\ call.tx_type = None
                /\ call.start_date = None
                /\ call.end_date = None) =>
                   /\ (call.min_amount = None /\ call.max_amount = None) =>
                          Len(ret) = Len(txs)
                   /\ (call.min_amount # None /\ call.max_amount = call.min_amount) =>
                          Len(ret) = Cardinality({i \in DOMAIN txs :
                                                     txs[i].amount = call.min_amount[1]})
            /\ data = before

\* min = max = 0 picks the one transaction of amount 0 out of two
C9_Witness ==
    /\ call.op = "search_transactions"
    /\ call.min_amount = Some(0)
    /\ call.max_amount = Some(0)
    /\ call.keyword = None
    /\ Len(before.transactions) = 2
    /\ Len(ret) = 1
    /\ ret[1].amount = 0

----------------------------------------------------------------------------
(* check_affordability on ledgers long enough for the [:5] cut to matter *)

MaxUpcomingTx == 6

\* expenses on three dates and one income, loaded in any order
UpPayloads ==
    [date : {102, 201, 202}, type : {"expense"}, amount : {1}]
        \cup {[date |-> 201, type |-> "income", amount |-> 1]}
UpTargets == {101, 102}

UpLedgers ==
    {Ledger(None, [i \in DOMAIN ps |->
                      Tx(IdAt(i), ps[i].date, ps[i].type, ps[i].amount, <<"x">>)]) :
        ps \in SeqsUpTo(UpPayloads, MaxUpcomingTx)}

InitUpcoming ==
    /\ data \in UpLedgers
    /\ before = data
    /\ disk = data
    /\ wrote = FALSE
    /\ last_add = None
    /\ call = [op |-> "load"]
    /\ ret = None
    /\ pc = "loaded"

NextUpcoming == \E d \in UpTargets : Check(1, d)

SpecUpcoming == InitUpcoming /\ [][NextUpcoming]_vars

\* the expenses of the loaded ledger dated strictly after the target date
UpcomingCandidates ==
    {i \in DOMAIN data.transactions :
        /\ data.transactions[i].type = "expense"
        /\ data.transactions[i].date > call.target_date}

\* up holds only candidates, each at most once
OnlyCandidates(up) ==
    \A k \in DOMAIN up :
        /\ \E i \in UpcomingCandidates : data.transactions[i] = up[k]
        /\ \A l \in DOMAIN up : up[l] = up[k] => l = k

(* C11: the upcoming_expenses of check_affordability are the (up to) five   *)
(* earliest expenses dated strictly after the target date, in ascending     *)
(* date order, whatever the order of the stored list; no income and no      *)
(* transaction dated on or before the target date is among them.            *)
C11_UpcomingAreEarliestExpenses ==
    call.op = "check_affordability" =>
        LET up == ret.upcoming_expenses
            n == Cardinality(UpcomingCandidates)
        IN  /\ Len(up) = IF n < UpcomingLimit THEN n ELSE UpcomingLimit
            /\ OnlyCandidates(up)
            /\ IsDateAscending(up)
            /\ \A i \in UpcomingCandidates :
                   (\A k \in DOMAIN up : up[k] # data.transactions[i]) =>
                       \A k \in DOMAIN up : up[k].date <= data.transactions[i].date

\* what the code does give: the first five candidates in the order of the stored
\* list, which are the five earliest when that list is in date order
UpcomingFollowStorageOrder ==
    call.op = "check_affordability" =>
        LET up == ret.upcoming_expenses
            n == Cardinality(UpcomingCandidates)
        IN  /\ Len(up) = IF n < UpcomingLimit THEN n ELSE UpcomingLimit
            /\ OnlyCandidates(up)
            /\ \E f \in [DOMAIN up -> UpcomingCandidates] :
                   /\ \A k \in DOMAIN up : data.transactions[f[k]] = up[k]
                   /\ \A k, l \in DOMAIN up : k < l => f[k] < f[l]
                   /\ \A i \in UpcomingCandidates :
                          (\E k \in DOMAIN up : i < f[k]) => \E k \in DOMAIN up : f[k] = i
            /\ IsDateAscending(data.transactions) =>
                   C11_UpcomingAreEarliestExpenses

\* six upcoming expenses stored latest first: the cut keeps the five latest
UpcomingCutOnUnsorted ==
    /\ call.op = "check_affordability"
    /\ Cardinality(UpcomingCandidates) = 6
    /\ ~IsDateAscending(data.transactions)
    /\ data.transactions[6].date < data.transactions[1].date
    /\ Len(ret.upcoming_expenses) = UpcomingLimit

----------------------------------------------------------------------------
(* okane_analyzer.forecast_balance *)

\* amounts from this size on are listed as the big items of a month
BigItemLine == 100000

DayOf(date) == date % 100

\* days of the months of 2026
DaysInMonth(month) == <<31, 28, 31, 30, 31, 30, 31, 31, 30, 31, 30, 31>>[month]

\* today + relativedelta(months=i): the day is cut to the length of the month
AddMonths(today, i) ==
    LET month == MonthOf(today) + i
        day == IF DayOf(today) > DaysInMonth(month) THEN DaysInMonth(month)
               ELSE DayOf(today)
    IN  month * 100 + day

\* target.replace(day=28) + timedelta(days=4) falls in the next month on day
\* 32 - DaysInMonth; going back that many days from there ends on the last day
MonthEnd(target) ==
    LET next_month_day == 28 + 4 - DaysInMonth(MonthOf(target))
    IN  MonthOf(target) * 100 + (28 + 4 - next_month_day)

ForecastEntry(d, today, i, target_date) ==
    LET target == AddMonths(today, i)
    IN  [month |-> MonthStr(MonthOf(target)),
         date |-> target_date,
         balance |-> GetBalanceAtDate(d, target_date),
         big_items |-> SelectSeq(d.transactions,
                                 LAMBDA t : /\ t.date # 0
                                            /\ MonthOf(t.date) = MonthOf(target)
                                            /\ t.amount >= BigItemLine)]

ForecastBalance_SameDay(d, today, months_ahead) ==
    [k \in 1..(months_ahead + 1) |->
        ForecastEntry(d, today, k - 1, AddMonths(today, k - 1))]

ForecastBalance(d, today, months_ahead) ==
    [k \in 1..(months_ahead + 1) |->
        ForecastEntry(d, today, k - 1,
                      IF k - 1 = 0 THEN today ELSE MonthEnd(AddMonths(today, k - 1)))]

MaxMonthsAhead == 2

\* the last of January, the last of February and the first of March
FoDates == {131, 228, 301}
\* a last day of a longer month and a day in the middle of a month
FoTodays == {131, 215}
FoAmounts == {1, 100000}

FoPayloads == [date : FoDates, type : Types, amount : FoAmounts]

FoLedgers ==
    {Ledger(ib, [i \in DOMAIN ps |->
                    Tx(IdAt(i), ps[i].date, ps[i].type, ps[i].amount, <<"x">>)]) :
        ib \in AnInitialBalances, ps \in SeqsUpTo(FoPayloads, MaxTx)}

InitForecast ==
    /\ data \in FoLedgers
    /\ before = data
    /\ disk = data
    /\ wrote = FALSE
    /\ last_add = None
    /\ call = [op |-> "load"]
    /\ ret = None
    /\ pc = "loaded"

Forecast(today, months_ahead) ==
    /\ pc = "loaded"
    /\ call' = [op |-> "forecast_balance", today |-> today,
                months_ahead |-> months_ahead]
    /\ ret' = ForecastBalance(data, today, months_ahead)
    /\ pc' = "done"
    /\ UNCHANGED <<data, before, disk, wrote, last_add>>

NextForecast == \E today \in FoTodays, n \in 0..MaxMonthsAhead : Forecast(today, n)

SpecForecast == InitForecast /\ [][NextForecast]_vars

\* date is the last day of its month: the next day is not in the calendar
IsLastDayOfMonth(date) == DayOf(date) = DaysInMonth(MonthOf(date))

(* C12: forecast_balance(ledger, N), N >= 0, returns N+1 entries in          *)
(* ascending month order; entry 0 is dated today, entry i > 0 the last day  *)
(* of the month i months after today; each balance is the balance at the    *)
(* entry's date, so no transaction is counted twice; the big items of an    *)
(* entry are exactly the transactions of the entry's month with amount >=   *)
(* 100000; for N = 0 the one entry holds the balance at today.              *)
C12_ForecastEntries ==
    call.op = "forecast_balance" =>
        LET txs == data.transactions
            N == call.months_ahead
        IN  /\ Len(ret) = N + 1
            /\ \A k \in 1..(N + 1) :
                   LET e == ret[k]
                       m == MonthOf(call.today) + (k - 1)
                   IN  /\ e.month = MonthStr(m)
                       /\ MonthOf(e.date) = m
                       /\ k = 1 => e.date = call.today
                       /\ k > 1 => IsLastDayOfMonth(e.date)
                       /\ e.balance = GetBalanceAtDate(data, e.date)
                       /\ e.balance = InitialBalanceOf(data)
                                          + SignedSumBetween(txs, -1, e.date)
                       /\ e.big_items =
                              SelectSeq(txs, LAMBDA t : /\ MonthOf(t.date) = m
                                                        /\ t.amount >= 100000)
            /\ \A k \in 1..N : ret[k].date < ret[k + 1].date
            /\ N = 0 => ret[1].balance = GetBalanceAtDate(data, call.today)
            /\ data = before

\* a two-month forecast from the last of January: the February entry is dated the
\* 28th and its balance takes in a big item of that day, which is listed once
C12_Witness ==
    /\ call.op = "forecast_balance"
    /\ call.months_ahead = 2
    /\ call.today = 131
    /\ Len(ret) = 3
    /\ ret[2].date = 228
    /\ Len(ret[2].big_items) = 1
    /\ ret[2].big_items[1].type = "income"
    /\ ret[2].balance = ret[1].balance + 100000
    /\ ret[3].date = 331
    /\ ret[3].balance < ret[2].balance

----------------------------------------------------------------------------
(* the editor's --add *)

\* the outcome of an --add that went through: one more transaction, saved
AddedAndSaved ==
    /\ ret.out = "added"
    /\ Len(data.transactions) = Len(before.transactions) + 1
    /\ wrote
    /\ disk = data

\* the outcome of a refused --add: usage shown, ledger and file as loaded
RefusedWithUsage ==
    /\ ret.out = "usage"
    /\ data = before
    /\ ~wrote
    /\ disk = before

(* C13: --add adds a transaction and writes the file exactly when date,     *)
(* type, amount and description are all provided, an amount of 0 counting   *)
(* as provided; with a field missing it shows the usage text, leaves the    *)
(* ledger as loaded and writes no file.                                     *)
C13_AddWhenAllProvided ==
    call.op = "add" =>
        IF /\ Truthy(call.date, 0)
           /\ Truthy(call.type, "")
           /\ call.amount # None
           /\ Truthy(call.description, <<>>)
        THEN AddedAndSaved
        ELSE RefusedWithUsage

\* what the code does give: all([...]) takes the amount 0 for a missing amount
AddWhenAllTruthy ==
    call.op = "add" =>
        IF /\ Truthy(call.date, 0)
           /\ Truthy(call.type, "")
           /\ call.amount \notin {None, Some(0)}
           /\ Truthy(call.description, <<>>)
        THEN AddedAndSaved
        ELSE RefusedWithUsage

\* --add with every field given and the amount 0 ends in the usage text
AddOfZeroRefused ==
    /\ call.op = "add"
    /\ call.amount = Some(0)
    /\ Truthy(call.date, 0)
    /\ Truthy(call.type, "")
    /\ Truthy(call.description, <<>>)
    /\ ret.out = "usage"
    /\ ~wrote

----------------------------------------------------------------------------
(* okane_analyzer.main: from the parsed arguments to the functions it runs *)

\* argparse defaults and the arguments of the default behaviour
DefaultKeepMonths == 3
DefaultChartMonths == 6
DefaultForecastMonths == 6
DefaultThreshold == 0

\* one function main ran, with its leading argument and what it returned
Ran(fn, arg, out) == [fn |-> fn, arg |-> arg, out |-> out]

\* the if-chain of main: the first truthy mode flag decides, none gives the default
Dispatch(d, args, today) ==
    IF args.compress
    THEN <<Ran("compress_logs", args.keep_months,
               CompressLogs(d, today, args.keep_months))>>
    ELSE IF AmountTruthy(args.forecast)
    THEN <<Ran("forecast_balance", args.forecast[1],
               ForecastBalance(d, today, args.forecast[1]))>>
    ELSE IF AmountTruthy(args.check)
    THEN <<Ran("check_affordability", args.check[1],
               CheckAffordability(d, args.check[1],
                                  IF Truthy(args.date, 0) THEN args.date[1] ELSE today))>>
    ELSE IF args.danger
    THEN <<Ran("find_danger_points", args.threshold,
               FindDangerPoints(d, args.threshold))>>
    ELSE IF args.chart
    THEN <<Ran("generate_balance_chart", args.chart_months, None)>>
    ELSE IF args.interactive
    THEN <<Ran("generate_interactive_chart", args.chart_months, None)>>
    ELSE <<Ran("forecast_balance", DefaultForecastMonths,
               ForecastBalance(d, today, DefaultForecastMonths)),
           Ran("find_danger_points", DefaultThreshold,
               FindDangerPoints(d, DefaultThreshold))>>

\* one invocation of the analyzer; only --compress saves a file
Main(args, today) ==
    /\ pc = "loaded"
    /\ call' = [op |-> "main", args |-> args, today |-> today]
    /\ ret' = Dispatch(data, args, today)
    /\ IF args.compress
       THEN /\ disk' = CompressLogs(data, today, args.keep_months)
            /\ wrote' = TRUE
       ELSE UNCHANGED <<disk, wrote>>
    /\ pc' = "done"
    /\ UNCHANGED <<data, before, last_add>>

CliDates == {131, 301}
CliToday == 215
CliPayloads == [date : CliDates, type : Types, amount : {100000}]

CliLedgers ==
    {Ledger(None, [i \in DOMAIN ps |->
                      Tx(IdAt(i), ps[i].date, ps[i].type, ps[i].amount, <<"x">>)]) :
        ps \in SeqsUpTo(CliPayloads, MaxTx)}

\* the command lines: every mode flag given or not, --forecast and --check also
\* with the value 0
CliArgs ==
    [compress : BOOLEAN,
     forecast : {None, Some(0), Some(2)},
     check : {None, Some(0), Some(1)},
     date : {None, Some(301)},
     danger : BOOLEAN,
     threshold : {DefaultThreshold},
     keep_months : {DefaultKeepMonths},
     chart : BOOLEAN,
     interactive : BOOLEAN,
     chart_months : {DefaultChartMonths}]

InitCli ==
    /\ data \in CliLedgers
    /\ before = data
    /\ disk = data
    /\ wrote = FALSE
    /\ last_add = None
    /\ call = [op |-> "load"]
    /\ ret = None
    /\ pc = "loaded"

NextCli == \E args \in CliArgs : Main(args, CliToday)

SpecCli == InitCli /\ [][NextCli]_vars

\* the mode flags given on the command line, by the function each stands for
GivenModes(args) ==
    {m \in {"compress_logs", "forecast_balance", "check_affordability",
            "find_danger_points", "generate_balance_chart",
            "generate_interactive_chart"} :
        \/ m = "compress_logs" /\ args.compress
        \/ m = "forecast_balance" /\ args.forecast # None
        \/ m = "check_affordability" /\ args.check # None
        \/ m = "find_danger_points" /\ args.danger
        \/ m = "generate_balance_chart" /\ args.chart
        \/ m = "generate_interactive_chart" /\ args.interactive}

\* the default behaviour ran: a 6-month forecast, then a danger scan at 0
RanDefault ==
    /\ Len(ret) = 2
    /\ ret[1].fn = "forecast_balance"
    /\ ret[1].arg = 6
    /\ ret[2].fn = "find_danger_points"
    /\ ret[2].arg = 0

(* C14: the analyzer takes its default behaviour (6-month forecast, then a  *)
(* danger scan at threshold 0) only when no mode flag is given; with a mode *)
(* flag given exactly one of the given modes runs; --forecast N alone, for  *)
(* every N >= 0, runs the forecast with N (N+1 entries) and no danger scan; *)
(* --check AMOUNT alone, for every AMOUNT >= 0, runs the affordability      *)
(* check with that amount.                                                  *)
C14_OneModePerInvocation ==
    call.op = "main" =>
        LET given == GivenModes(call.args)
        IN  /\ given = {} => RanDefault
            /\ given # {} =>
                   /\ Len(ret) = 1
                   /\ ret[1].fn \in given
            /\ given = {"forecast_balance"} =>
                   /\ ret[1].arg = call.args.forecast[1]
                   /\ Len(ret[1].out) = call.args.forecast[1] + 1
            /\ given = {"check_affordability"} =>
                   /\ ret[1].arg = call.args.check[1]
                   /\ ret[1].out.expense_amount = call.args.check[1]

\* what the code does give: a --forecast or --check of 0 counts as not given
OneModePerTruthyFlag ==
    call.op = "main" =>
        LET args == call.args
            given == GivenModes([args EXCEPT
                         !.forecast = IF @ = Some(0) THEN None ELSE @,
                         !.check = IF @ = Some(0) THEN None ELSE @])
        IN  /\ given = {} => RanDefault
            /\ given # {} =>
                   /\ Len(ret) = 1
                   /\ ret[1].fn \in given
            /\ given = {"forecast_balance"} =>
                   /\ ret[1].arg = args.forecast[1]
                   /\ Len(ret[1].out) = args.forecast[1] + 1
            /\ given = {"check_affordability"} =>
                   /\ ret[1].arg = args.check[1]
                   /\ ret[1].out.expense_amount = args.check[1]

\* --forecast 0 as the only flag runs the default behaviour
ForecastZeroRunsDefault ==
    /\ call.op = "main"
    /\ GivenModes(call.args) = {"forecast_balance"}
    /\ call.args.forecast = Some(0)
    /\ RanDefault
    /\ Len(ret[1].out) = 7

----------------------------------------------------------------------------
(* Sequences of direct calls of add_transaction, edit_transaction and       *)
(* delete_transaction on one ledger object                                  *)

\* add_transaction called directly; new_id is what generate_id returns
AddCall(new_id, date, type, amount, description) ==
    /\ pc = "loaded"
    /\ Len(data.transactions) < MaxTx
    /\ new_id \notin Ids(data.transactions)
    /\ call' = [op |-> "add_transaction", tx_id |-> new_id, date |-> Some(date),
                type |-> Some(type), amount |-> Some(amount),
                description |-> Some(description)]
    /\ LET r == AddTransaction(data, new_id, date, type, amount, description)
       IN  /\ data' = r.data
           /\ ret' = [out |-> "returned", value |-> r.ret]
    /\ pc' = "done"
    /\ UNCHANGED <<before, disk, wrote, last_add>>

\* delete_transaction called directly
DeleteCall(tx_id) ==
    /\ pc = "loaded"
    /\ call' = [op |-> "delete_transaction", tx_id |-> tx_id, date |-> None,
                type |-> None, amount |-> None, description |-> None]
    /\ LET r == DeleteTransaction(data, tx_id)
       IN  /\ data' = r.data
           /\ ret' = [out |-> "returned", value |-> r.ret]
    /\ pc' = "done"
    /\ UNCHANGED <<before, disk, wrote, last_add>>

\* the call has returned; the next one works on the same ledger object
Returned ==
    /\ pc = "done"
    /\ before' = data
    /\ call' = [op |-> "load"]
    /\ ret' = None
    /\ pc' = "loaded"
    /\ UNCHANGED <<data, disk, wrote, last_add>>

\* amounts a caller passes; the negative one is outside the schema
CaAmounts == {-1, 0}

NextCalls ==
    \/ \E new_id \in GenIds, amount \in CaAmounts :
           AddCall(new_id, 101, "expense", amount, <<"x">>)
    \/ \E tx_id \in EdIds \cup GenIds \cup {AbsentId}, amount \in CaAmounts :
           EditCall(tx_id, None, None, Some(amount), None)
    \/ \E tx_id \in EdIds \cup GenIds \cup {AbsentId} : DeleteCall(tx_id)
    \/ Returned

SpecCalls == InitEditor /\ [][NextCalls]_vars

NonNegativeAmounts(txs) == \A i \in DOMAIN txs : txs[i].amount >= 0

(* C15: on a ledger with pairwise distinct ids, with generate_id returning  *)
(* an id that is not in the ledger, every add_transaction, edit_transaction *)
(* and delete_transaction leaves the ids pairwise distinct and changes the  *)
(* id of no transaction: those it does not target stay as they were, the    *)
(* edited one keeps its id, the only new id is that of the added one; with  *)
(* non-negative amounts before and a non-negative amount supplied, all      *)
(* amounts are non-negative afterwards.                                     *)
C15_IdsStayDistinct ==
    (/\ call.op \in {"add_transaction", "edit_transaction", "delete_transaction"}
     /\ UniqueIds(before.transactions)) =>
        LET old == before.transactions
            new == data.transactions
        IN  /\ UniqueIds(new)
            /\ \A i \in DOMAIN old :
                   \/ call.op = "delete_transaction" /\ old[i].id = call.tx_id
                   \/ \E j \in DOMAIN new :
                          /\ new[j].id = old[i].id
                          /\ old[i].id # call.tx_id => new[j] = old[i]
            /\ Ids(new) \subseteq
                   Ids(old) \cup (IF call.op = "add_transaction" THEN {call.tx_id} ELSE {})
            /\ Len(new) = Len(old)
                   + (IF call.op = "add_transaction" THEN 1 ELSE 0)
                   - (IF call.op = "delete_transaction" /\ call.tx_id \in Ids(old)
                      THEN 1 ELSE 0)
            /\ (/\ NonNegativeAmounts(old)
                /\ call.amount # None => call.amount[1] >= 0) =>
                   NonNegativeAmounts(new)

\* a third call in a row: an add to a ledger that an earlier add and an edit to
\* amount 0 have already changed, all ids distinct
C15_Witness ==
    /\ call.op = "add_transaction"
    /\ call.amount = Some(0)
    /\ UniqueIds(before.transactions)
    /\ Len(before.transactions) = 2
    /\ \E i \in DOMAIN before.transactions : before.transactions[i].id \in GenIds
    /\ \E i \in DOMAIN before.transactions :
           /\ before.transactions[i].id \in EdIds
           /\ before.transactions[i].amount = 0
    /\ Len(data.transactions) = 3
    /\ NonNegativeAmounts(data.transactions)

----------------------------------------------------------------------------
(* The balance before and after compress_logs *)

LastOfMonth(month) == month * 100 + DaysInMonth(month)

\* the first, the second and the last day of the months around the ledger's
ProbeDates == {month * 100 + day : month \in 1..5, day \in {1, 2}}
                  \cup {LastOfMonth(month) : month \in 1..5}

\* the months compress_logs summarises: those of the transactions before the cutoff
CompressedMonths(txs, cutoff) ==
    {MonthOf(txs[i].date) : i \in {k \in DOMAIN txs : MonthOf(txs[k].date) < cutoff}}

\* the balances of the returned and of the given ledger agree from the first day
\* of the cutoff month on and at the last day of every compressed month
SameWindowBalance ==
    LET cutoff == Cutoff(call.today, call.keep_months)
    IN  /\ \A d \in ProbeDates :
               d >= FirstOfMonth(cutoff) =>
                   GetBalanceAtDate(ret, d) = GetBalanceAtDate(data, d)
        /\ \A m \in CompressedMonths(data.transactions, cutoff) :
               GetBalanceAtDate(ret, LastOfMonth(m)) = GetBalanceAtDate(data, LastOfMonth(m))

(* C16: for every ledger and every keep_months >= 0, the ledger             *)
(* compress_logs returns has the same balance as the given one at every     *)
(* date from the first day of the cutoff month on, and at the last day of   *)
(* every compressed month; the given ledger and its transaction list are    *)
(* left as they were.                                                       *)
C16_CompressKeepsWindowBalance ==
    call.op = "compress_logs" =>
        /\ SameWindowBalance
        /\ data = before

\* what the code does give: the same for ledgers whose amounts are all >= 0
KeepsWindowBalanceOfNonNegative ==
    (call.op = "compress_logs" /\ NonNegativeAmounts(data.transactions)) =>
        /\ SameWindowBalance
        /\ data = before

\* a month whose income sums to less than 0 is dropped and the balance rises
NegativeMonthDropped ==
    /\ call.op = "compress_logs"
    /\ Len(data.transactions) = 1
    /\ data.transactions[1].amount < 0
    /\ ret.transactions = <<>>
    /\ GetBalanceAtDate(data, 401) = -1
    /\ GetBalanceAtDate(ret, 401) = 0

\* inside a compressed month the balance moves: the total sits on the 1st
MovedToFirstOfMonth ==
    /\ call.op = "compress_logs"
    /\ NonNegativeAmounts(data.transactions)
    /\ GetBalanceAtDate(ret, 101) # GetBalanceAtDate(data, 101)
    /\ GetBalanceAtDate(ret, 131) = GetBalanceAtDate(data, 131)

====
